---- MODULE Spec2Model ----
(***************************************************************************)
(* EmotiSense: the POST /analyze request handler (app.py) together with    *)
(* the FacialAnalyzer frame loop and aggregator (facial_analyzer.py), the  *)
(* VoiceAnalyzer audio extraction (voice_analyzer.py) and the feedback     *)
(* composer's top-level branches (feedback_generator.py).                  *)
(*                                                                         *)
(* Strings that the code inspects character by character (file names) are  *)
(* tuples of one-character strings.  Real numbers are exact rationals      *)
(* [num, den]; the percentages and durations of the code are floats.       *)
(***************************************************************************)
EXTENDS Integers, Sequences, FiniteSets, TLC

\* ------------------------------------------------------------------ bounds
MaxFrames == 11

\* ------------------------------------------------------- program constants
FrameSkip == 5
NumSegments == 10

Requests == {"r1", "r2"}

ALLOWED_EXTENSIONS == {<<"m", "p", "4">>}

Labels == {"happy", "neutral", "sad"}

FpsValues == {0, 30}

None == "None"
NoPath == <<>>
NoResult == [absent |-> TRUE]
NoAudio == [absent |-> TRUE]
\* a video nothing can decode: also the content of a truncated file
NoVideo == [valid |-> FALSE, nframes |-> 0, header |-> 0, fps |-> 0, audio |-> NoAudio]
NoFile == [owner |-> None, video |-> NoVideo]

\* ------------------------------------------------------------ file names
Upper == <<"A", "B", "C", "D", "E", "F", "G", "H", "I", "J", "K", "L", "M",
           "N", "O", "P", "Q", "R", "S", "T", "U", "V", "W", "X", "Y", "Z">>
Lower == <<"a", "b", "c", "d", "e", "f", "g", "h", "i", "j", "k", "l", "m",
           "n", "o", "p", "q", "r", "s", "t", "u", "v", "w", "x", "y", "z">>

RECURSIVE LowerChar(_, _)
LowerChar(c, i) ==
    IF i > Len(Upper) THEN c
    ELSE IF Upper[i] = c THEN Lower[i] ELSE LowerChar(c, i + 1)

lower(s) == [i \in 1..Len(s) |-> LowerChar(s[i], 1)]

Contains(s, c) == \E i \in 1..Len(s) : s[i] = c

\* the index of the last occurrence of c in s, 0 when there is none
LastIndexOf(s, c) ==
    IF Contains(s, c)
    THEN CHOOSE i \in 1..Len(s) : s[i] = c /\ \A j \in (i + 1)..Len(s) : s[j] # c
    ELSE 0

\* filename.rsplit('.', 1)[1]
RSplitExt(s) == SubSeq(s, LastIndexOf(s, ".") + 1, Len(s))

\* a check that only asks for some extension
allowed_file_any_extension(filename) == Contains(filename, ".")

allowed_file(filename) ==
    /\ Contains(filename, ".")
    /\ lower(RSplitExt(filename)) \in ALLOWED_EXTENSIONS

SafeChars == {"a", "b", "c", "d", "m", "p", "v", "i", "4",
              "A", "B", "C", "D", "M", "P", "V", "I", ".", "_", "-"}

RECURSIVE StripLeft(_)
StripLeft(s) ==
    IF s # <<>> /\ Head(s) \in {".", "_"} THEN StripLeft(Tail(s)) ELSE s

RECURSIVE StripRight(_)
StripRight(s) ==
    IF s # <<>> /\ s[Len(s)] \in {".", "_"}
    THEN StripRight(SubSeq(s, 1, Len(s) - 1)) ELSE s

\* path separators become blanks, runs of blanks become one "_" (none at the
\* ends), characters outside [A-Za-z0-9_.-] are dropped, "." and "_" are
\* stripped from both ends
RECURSIVE JoinWords(_, _)
JoinWords(s, pendingGap) ==
    IF s = <<>> THEN <<>>
    ELSE IF Head(s) \in {"/", " "} THEN JoinWords(Tail(s), TRUE)
    ELSE (IF pendingGap THEN <<"_">> ELSE <<>>) \o <<Head(s)>> \o JoinWords(Tail(s), FALSE)

RECURSIVE SkipBlanks(_)
SkipBlanks(s) ==
    IF s # <<>> /\ Head(s) \in {"/", " "} THEN SkipBlanks(Tail(s)) ELSE s

secure_filename(filename) ==
    StripRight(StripLeft(
        SelectSeq(JoinWords(SkipBlanks(filename), FALSE), LAMBDA c : c \in SafeChars)))

C_MP4 == <<"c", ".", "m", "p", "4">>
C_MP4_UP == <<"c", ".", "M", "P", "4">>
D_MP4 == <<"d", ".", "m", "p", "4">>
C_AVI == <<"c", ".", "a", "v", "i">>
SLASH_C_MP4_UP == <<"/", "c", ".", "M", "P", "4">>
C_MP4_AVI == <<"c", ".", "m", "p", "4", ".", "a", "v", "i">>
MP4_NODOT == <<"m", "p", "4">>

Filenames == {<<>>, C_MP4_UP, SLASH_C_MP4_UP, C_AVI, C_MP4_AVI, MP4_NODOT}

ConcFilenames == {C_MP4, D_MP4}

ScratchPaths == {secure_filename(f) : f \in (Filenames \cup ConcFilenames)}

Rat(n, d) == [num |-> n, den |-> d]

\* the summary statistics lines 66-96 reduce the waveform to
Features(pitch, pitch_std, energy, zcr, centroid) ==
    [duration |-> Rat(2, 1), pitch |-> pitch, pitch_std |-> pitch_std,
     energy |-> energy, energy_std |-> Rat(1, 100), zcr |-> zcr,
     spectral_centroid |-> centroid, tempo |-> Rat(120, 1)]

FeatureSamples ==
    {Features(Rat(150, 1), Rat(20, 1), Rat(4, 100), Rat(7, 100), Rat(2500, 1)),
     Features(Rat(100, 1), Rat(10, 1), Rat(1, 100), Rat(3, 100), Rat(1500, 1)),
     Features(Rat(220, 1), Rat(40, 1), Rat(8, 100), Rat(15, 100), Rat(3500, 1))}

\* CAP_PROP_FRAME_COUNT comes from the container header and can miss a frame
HeaderCounts(n) == {h \in {n - 1, n} : h >= 0}

\* the videos a client can upload
Videos ==
    {v \in [valid : BOOLEAN, nframes : 0..MaxFrames, header : 0..MaxFrames,
            fps : FpsValues, audio : {NoAudio} \cup FeatureSamples] :
       /\ v.header \in HeaderCounts(v.nframes)
       /\ ~v.valid => v = NoVideo}

\* the video of the interleaved requests: no frame, one audio track
ConcVideos ==
    {v \in Videos : v.valid /\ v.nframes = 0 /\ v.fps = 30
                    /\ v.audio = Features(Rat(150, 1), Rat(20, 1), Rat(4, 100), Rat(7, 100), Rat(2500, 1))}

\* ------------------------------------------------------------------ state
VARIABLES
    pc,               \* where each request's handler stands
    upload,           \* the multipart request: body kind, client file name, video
    temp_video_path,  \* the scratch path of the request, NoPath before line 74
    files,            \* the scratch directory: path -> the content stored there
    results,          \* the combined object of lines 96-104
    pending,          \* what is propagating: none, a return, or an exception class
    response,         \* the HTTP response of the request
    escaped,          \* an exception left analyze_video uncaught
    wrote,            \* history: the request has created its scratch file
    foreign,          \* history: accesses to a file another live request stored
    cap,              \* the cv2.VideoCapture of FacialAnalyzer.analyze_video
    video,            \* the content the capture decodes
    total_frames, fps, frame_idx, emotions_detected,
    invoked,          \* history: frame indices handed to DeepFace.analyze
    facial_results,
    clip,             \* the content the VideoFileClip of VoiceAnalyzer reads
    vpc,              \* how VoiceAnalyzer.analyze_video is being left
    wav,              \* the transient WAV file exists on disk
    wavWritten,       \* history: the transient WAV file was ever created
    voice_results

vars == <<pc, upload, temp_video_path, files, results, pending, response, escaped, wrote,
          foreign, cap, video, total_frames, fps, frame_idx, emotions_detected,
          invoked, facial_results, clip, vpc, wav, wavWritten, voice_results>>

facialVars == <<cap, video, total_frames, fps, frame_idx, emotions_detected,
                invoked, facial_results>>
voiceVars == <<clip, vpc, wav, wavWritten, voice_results>>

NoUpload == [body |-> None, filename |-> <<>>, video |-> NoVideo]
NoResponse == [status |-> 0]

Init ==
    /\ pc = [p \in Requests |-> "idle"]
    /\ upload = [p \in Requests |-> NoUpload]
    /\ temp_video_path = [p \in Requests |-> NoPath]
    /\ files = [f \in ScratchPaths |-> NoFile]
    /\ pending = [p \in Requests |-> "none"]
    /\ response = [p \in Requests |-> NoResponse]
    /\ escaped = [p \in Requests |-> FALSE]
    /\ wrote = [p \in Requests |-> FALSE]
    /\ foreign = [p \in Requests |-> {}]
    /\ cap = [p \in Requests |-> "none"]
    /\ video = [p \in Requests |-> NoVideo]
    /\ clip = [p \in Requests |-> NoVideo]
    /\ total_frames = [p \in Requests |-> 0]
    /\ fps = [p \in Requests |-> 0]
    /\ frame_idx = [p \in Requests |-> 0]
    /\ emotions_detected = [p \in Requests |-> <<>>]
    /\ invoked = [p \in Requests |-> {}]
    /\ facial_results = [p \in Requests |-> NoResult]
    /\ vpc = [p \in Requests |-> "none"]
    /\ wav = [p \in Requests |-> FALSE]
    /\ wavWritten = [p \in Requests |-> FALSE]
    /\ voice_results = [p \in Requests |-> NoResult]
    /\ results = [p \in Requests |-> NoResult]

InFlight(p) == pc[p] \notin {"idle", "done"}

\* the uploads a client can send
Uploads(names, videos) ==
    [body : {"video"}, filename : names, video : videos]
      \cup {[NoUpload EXCEPT !.body = "novideo"], [NoUpload EXCEPT !.body = "toolarge"]}

\* ---------------------------------------------------------- request handler
\* a POST /analyze arrives
Receive(p, u) ==
    /\ pc[p] = "idle"
    /\ upload' = [upload EXCEPT ![p] = u]
    /\ pc' = [pc EXCEPT ![p] = "validate"]
    /\ UNCHANGED <<temp_video_path, files, results, pending, response, escaped, wrote, foreign>>
    /\ UNCHANGED facialVars
    /\ UNCHANGED voiceVars

\* one request at a time
ReceiveOne(p) ==
    /\ \A q \in Requests : pc[q] = "idle"
    /\ \E u \in Uploads(Filenames, Videos) : Receive(p, u)

Error400(message) == [status |-> 400, body |-> [error |-> message]]
Error500 == [status |-> 500, body |-> [error |-> "Analysis failed", success |-> FALSE]]

ValidationResult(u) ==
    IF u.body = "novideo" THEN Error400("No video file provided")
    ELSE IF u.filename = <<>> THEN Error400("No file selected")
    ELSE IF ~allowed_file(u.filename) THEN Error400("Only MP4 files are allowed")
    ELSE NoResponse

Validate(p) ==
    /\ pc[p] = "validate"
    /\ IF upload[p].body = "toolarge"
       THEN \* request.files raises RequestEntityTooLarge
            /\ pc' = [pc EXCEPT ![p] = "except"]
            /\ pending' = [pending EXCEPT ![p] = "RequestEntityTooLarge"]
            /\ UNCHANGED response
       ELSE IF ValidationResult(upload[p]) # NoResponse
       THEN /\ response' = [response EXCEPT ![p] = ValidationResult(upload[p])]
            /\ pc' = [pc EXCEPT ![p] = "done"]
            /\ UNCHANGED pending
       ELSE /\ pc' = [pc EXCEPT ![p] = "save"]
            /\ UNCHANGED <<response, pending>>
    /\ UNCHANGED <<upload, temp_video_path, files, results, escaped, wrote, foreign>>
    /\ UNCHANGED facialVars
    /\ UNCHANGED voiceVars

\* the accesses of request p to a file that another live request stored
Foreign(p, path, op) ==
    IF files[path].owner \in Requests \ {p} /\ InFlight(files[path].owner)
    THEN {op} ELSE {}

\* what file.save leaves at the path: the upload, or a truncated file
Stored(p, complete) ==
    [owner |-> p, video |-> IF complete THEN upload[p].video ELSE NoVideo]

\* lines 73-75: file.save is outside the inner try, so its failures go straight
\* to the outer except; a failure after the destination was created leaves it
Save(p) ==
    /\ pc[p] = "save"
    /\ LET path == secure_filename(upload[p].filename) IN
       /\ temp_video_path' = [temp_video_path EXCEPT ![p] = path]
       /\ \E outcome \in {"saved", "open_failed", "write_failed"} :
            /\ IF outcome = "open_failed"
               THEN UNCHANGED <<files, wrote, foreign>>
               ELSE /\ files' = [files EXCEPT ![path] = Stored(p, outcome = "saved")]
                    /\ wrote' = [wrote EXCEPT ![p] = TRUE]
                    /\ foreign' = [foreign EXCEPT ![p] = @ \cup Foreign(p, path, "write")]
            /\ IF outcome = "saved"
               THEN /\ pc' = [pc EXCEPT ![p] = "facial_open"]
                    /\ UNCHANGED pending
               ELSE /\ pc' = [pc EXCEPT ![p] = "except"]
                    /\ pending' = [pending EXCEPT ![p] = "OSError"]
    /\ UNCHANGED <<upload, results, response, escaped>>
    /\ UNCHANGED facialVars
    /\ UNCHANGED voiceVars

\* ------------------------------------------------------------ FacialAnalyzer
\* line 31
Duration(total, rate) == IF rate > 0 THEN Rat(total, rate) ELSE Rat(0, 1)

\* lines 24-34
FacialOpen(p) ==
    /\ pc[p] = "facial_open"
    /\ LET path == temp_video_path[p]
           content == files[path]
       IN
       IF content.owner = None \/ ~content.video.valid
       THEN \* cap.isOpened() is false: raise Exception("Could not open ...")
            /\ cap' = [cap EXCEPT ![p] = "unopened"]
            /\ pc' = [pc EXCEPT ![p] = "finally_check"]
            /\ pending' = [pending EXCEPT ![p] = "Exception"]
            /\ UNCHANGED <<video, total_frames, fps, foreign>>
       ELSE /\ cap' = [cap EXCEPT ![p] = "open"]
            /\ video' = [video EXCEPT ![p] = content.video]
            /\ total_frames' = [total_frames EXCEPT ![p] = content.video.header]
            /\ fps' = [fps EXCEPT ![p] = content.video.fps]
            /\ foreign' = [foreign EXCEPT ![p] = @ \cup Foreign(p, path, "read")]
            /\ pc' = [pc EXCEPT ![p] = "frames"]
            /\ UNCHANGED pending
    /\ UNCHANGED <<upload, temp_video_path, files, results, response, escaped, wrote>>
    /\ UNCHANGED <<frame_idx, emotions_detected, invoked, facial_results>>
    /\ UNCHANGED voiceVars

\* a stride that is never applied
SampledEveryFrame(idx) == TRUE

\* line 41: the frames handed to the classifier
Sampled(idx) == idx % FrameSkip = 0

\* lines 44-73: the try block around one classification.  result is a label, or
\* "error" when DeepFace.analyze raises.  frame_idx / fps raises
\* ZeroDivisionError for fps = 0, inside the same try, so it is swallowed too.
Classify(detected, idx, rate, result) ==
    IF result = "error" \/ rate = 0
    THEN detected
    ELSE Append(detected, [frame |-> idx, timestamp |-> Rat(idx, rate), emotion |-> result])

\* the locals of FacialAnalyzer.analyze_video go away when it is left; the
\* capture stays as it was left
LeaveFacial(p) ==
    /\ video' = [video EXCEPT ![p] = NoVideo]
    /\ total_frames' = [total_frames EXCEPT ![p] = 0]
    /\ fps' = [fps EXCEPT ![p] = 0]
    /\ frame_idx' = [frame_idx EXCEPT ![p] = 0]
    /\ emotions_detected' = [emotions_detected EXCEPT ![p] = <<>>]
    /\ invoked' = [invoked EXCEPT ![p] = {}]

\* lines 36-76: one iteration of the while loop
FrameStep(p) ==
    /\ pc[p] = "frames"
    /\ \E decode \in {"ok", "error"} :
         IF decode = "error"
         THEN \* cap.read() raises: nothing in the function catches it
              /\ pc' = [pc EXCEPT ![p] = "finally_check"]
              /\ pending' = [pending EXCEPT ![p] = "cv2.error"]
              /\ LeaveFacial(p)
         ELSE /\ UNCHANGED <<pending, video, total_frames, fps>>
              /\ IF frame_idx[p] >= video[p].nframes
                 THEN \* ret is false: break
                      /\ pc' = [pc EXCEPT ![p] = "aggregate"]
                      /\ UNCHANGED <<frame_idx, emotions_detected, invoked>>
                 ELSE /\ pc' = pc
                      /\ frame_idx' = [frame_idx EXCEPT ![p] = @ + 1]
                      /\ IF ~Sampled(frame_idx[p])
                         THEN UNCHANGED <<emotions_detected, invoked>>
                         ELSE /\ invoked' = [invoked EXCEPT ![p] = @ \cup {frame_idx[p]}]
                              /\ \E result \in Labels \cup {"error"} :
                                   emotions_detected' =
                                     [emotions_detected EXCEPT ![p] =
                                        Classify(@, frame_idx[p], fps[p], result)]
    /\ UNCHANGED <<upload, temp_video_path, files, results, response, escaped, wrote, foreign>>
    /\ UNCHANGED <<cap, facial_results>>
    /\ UNCHANGED voiceVars

\* ---------------------------------------------------------- the aggregator
RatLeq(a, b) == a.num * b.den <= b.num * a.den
RatLess(a, b) == a.num * b.den < b.num * a.den

\* round(x, digits) as a multiple of 1/scale, ties to even
RoundTo(x, scale) ==
    LET n == scale * x.num
        q == n \div x.den
        r == n % x.den
    IN Rat(IF 2 * r > x.den \/ (2 * r = x.den /\ q % 2 = 1) THEN q + 1 ELSE q, scale)

Round2(x) == RoundTo(x, 100)

EmotionsOf(detected) == [i \in 1..Len(detected) |-> detected[i].emotion]

\* collections.Counter over a list
Counter(seq) ==
    [l \in {seq[i] : i \in 1..Len(seq)} |-> Cardinality({i \in 1..Len(seq) : seq[i] = l})]

FirstIndex(seq, l) == CHOOSE i \in 1..Len(seq) : seq[i] = l /\ \A j \in 1..(i - 1) : seq[j] # l

\* Counter(seq).most_common(1)[0][0]: the highest count, the first seen on a tie
MostCommon(seq) ==
    LET counts == Counter(seq) IN
    CHOOSE l \in DOMAIN counts :
        \A m \in DOMAIN counts :
            \/ counts[l] > counts[m]
            \/ counts[l] = counts[m] /\ FirstIndex(seq, l) <= FirstIndex(seq, m)

\* percentages taken over one detection too many
EmotionPercentagesOffByOne(detected) ==
    LET emotion_counts == Counter(EmotionsOf(detected))
    IN [emotion \in DOMAIN emotion_counts |->
          Rat(emotion_counts[emotion] * 100, Len(detected) + 1)]

\* lines 90-97
EmotionPercentages(detected) ==
    LET emotion_counts == Counter(EmotionsOf(detected))
        total_detections == Len(detected)
    IN [emotion \in DOMAIN emotion_counts |->
          Rat(emotion_counts[emotion] * 100, total_detections)]

\* line 138
SegmentDuration(duration) == Rat(duration.num, duration.den * NumSegments)

\* line 142
SegmentStart(i, duration) ==
    Rat(i * SegmentDuration(duration).num, SegmentDuration(duration).den)

\* a segment that stops half way to the next one
SegmentEndHalfWay(i, duration) ==
    Rat((2 * i + 1) * SegmentDuration(duration).num, 2 * SegmentDuration(duration).den)

\* line 143
SegmentEnd(i, duration) ==
    Rat((i + 1) * SegmentDuration(duration).num, SegmentDuration(duration).den)

\* lines 144-147: the collected frames of segment i
SegmentFrames(detected, i, duration) ==
    SelectSeq(detected, LAMBDA e :
        /\ RatLeq(SegmentStart(i, duration), e.timestamp)
        /\ RatLess(e.timestamp, SegmentEnd(i, duration)))

\* lines 130-160
CreateTimeline(detected, duration) ==
    IF detected = <<>> THEN <<>>
    ELSE [k \in 1..NumSegments |->
            [segment |-> k,
             start_time |-> Round2(SegmentStart(k - 1, duration)),
             end_time |-> Round2(SegmentEnd(k - 1, duration)),
             emotion |-> IF SegmentFrames(detected, k - 1, duration) # <<>>
                         THEN MostCommon(EmotionsOf(SegmentFrames(detected, k - 1, duration)))
                         ELSE "neutral"]]

\* the empty case not told apart
NoFacesNeverChecked(detected) == FALSE

\* line 83
NoFaces(detected) == detected = <<>>

\* lines 84-88
FacialError(duration) ==
    [error |-> "No faces detected in video", duration |-> duration, frames_analyzed |-> 0]

\* lines 90-113; the per-label score maps of the classifier are not carried
FacialSummary(detected, duration, total) ==
    [duration |-> Round2(duration),
     frames_analyzed |-> Len(detected),
     total_frames |-> total,
     dominant_emotion |-> MostCommon(EmotionsOf(detected)),
     emotion_percentages |-> EmotionPercentages(detected),
     timeline |-> CreateTimeline(detected, duration),
     emotions_detected |-> detected]

\* lines 78-113: after the loop
FacialReturn(p) ==
    /\ pc[p] = "aggregate"
    /\ cap' = [cap EXCEPT ![p] = "released"]
    /\ LET detected == emotions_detected[p]
           duration == Duration(total_frames[p], fps[p])
       IN
       IF NoFaces(detected)
       THEN /\ facial_results' = [facial_results EXCEPT ![p] = FacialError(duration)]
            /\ pc' = [pc EXCEPT ![p] = "voice_open"]
            /\ UNCHANGED pending
       ELSE IF detected = <<>>
       THEN \* emotions_detected[0] of an empty list
            /\ pc' = [pc EXCEPT ![p] = "finally_check"]
            /\ pending' = [pending EXCEPT ![p] = "IndexError"]
            /\ UNCHANGED facial_results
       ELSE /\ facial_results' =
                 [facial_results EXCEPT ![p] = FacialSummary(detected, duration, total_frames[p])]
            /\ pc' = [pc EXCEPT ![p] = "voice_open"]
            /\ UNCHANGED pending
    /\ LeaveFacial(p)
    /\ UNCHANGED <<upload, temp_video_path, files, results, response, escaped, wrote, foreign>>
    /\ UNCHANGED voiceVars

\* ------------------------------------------------------------- VoiceAnalyzer
VoiceError == [error |-> "No audio track found in video", has_audio |-> FALSE]

\* lines 30-38: tempfile.mktemp only makes up a name; VideoFileClip opens the
\* video, which fails for a missing or broken file and may fail for any other
VoiceOpen(p) ==
    /\ pc[p] = "voice_open"
    /\ LET path == temp_video_path[p]
           content == files[path]
       IN
       \E outcome \in {"opened", "open_failed"} :
         /\ outcome = "opened" => content.owner # None /\ content.video.valid
         /\ IF outcome = "open_failed"
            THEN /\ vpc' = [vpc EXCEPT ![p] = "OSError"]
                 /\ pc' = [pc EXCEPT ![p] = "voice_finally"]
                 /\ UNCHANGED <<voice_results, clip, foreign>>
            ELSE /\ foreign' = [foreign EXCEPT ![p] = @ \cup Foreign(p, path, "read")]
                 /\ IF content.video.audio = NoAudio
                    THEN \* video.audio is None
                         /\ vpc' = [vpc EXCEPT ![p] = "return"]
                         /\ voice_results' = [voice_results EXCEPT ![p] = VoiceError]
                         /\ pc' = [pc EXCEPT ![p] = "voice_finally"]
                         /\ UNCHANGED clip
                    ELSE /\ clip' = [clip EXCEPT ![p] = content.video]
                         /\ pc' = [pc EXCEPT ![p] = "voice_write"]
                         /\ UNCHANGED <<vpc, voice_results>>
    /\ UNCHANGED <<upload, temp_video_path, files, results, pending, response, escaped, wrote>>
    /\ UNCHANGED facialVars
    /\ UNCHANGED <<wav, wavWritten>>

\* lines 40-45: video.audio.write_audiofile(temp_audio_path, ...)
VoiceWrite(p) ==
    /\ pc[p] = "voice_write"
    /\ \E outcome \in {"written", "open_failed", "write_failed"} :
         /\ wav' = [wav EXCEPT ![p] = outcome # "open_failed"]
         /\ wavWritten' = [wavWritten EXCEPT ![p] = outcome # "open_failed"]
         /\ IF outcome = "written"
            THEN /\ pc' = [pc EXCEPT ![p] = "voice_analyze"]
                 /\ UNCHANGED vpc
            ELSE /\ pc' = [pc EXCEPT ![p] = "voice_finally"]
                 /\ vpc' = [vpc EXCEPT ![p] = "OSError"]
    /\ UNCHANGED <<upload, temp_video_path, files, results, pending, response, escaped, wrote, foreign>>
    /\ UNCHANGED facialVars
    /\ UNCHANGED <<voice_results, clip>>

\* --------------------------------------------- the interpretation rule engine
\* the texts of _interpret_features, and the keywords the composer looks for
PITCH_HIGH ==
    <<"h", "i", "g", "h", " ", "(", "p", "o", "s", "s", "i", "b", "l", "e", " ", "e",
      "x", "c", "i", "t", "e", "m", "e", "n", "t", " ", "o", "r", " ", "s", "t", "r",
      "e", "s", "s", ")">>

PITCH_MODERATE ==
    <<"m", "o", "d", "e", "r", "a", "t", "e", " ", "(", "n", "e", "u", "t", "r", "a",
      "l", " ", "t", "o", " ", "c", "o", "n", "f", "i", "d", "e", "n", "t", ")">>

PITCH_LOW ==
    <<"l", "o", "w", " ", "(", "c", "a", "l", "m", " ", "o", "r", " ", "p", "o", "s",
      "s", "i", "b", "l", "y", " ", "m", "o", "n", "o", "t", "o", "n", "e", ")">>

VARIATION_HIGH ==
    <<" ", "w", "i", "t", "h", " ", "h", "i", "g", "h", " ", "v", "a", "r", "i", "a",
      "t", "i", "o", "n", " ", "(", "e", "x", "p", "r", "e", "s", "s", "i", "v", "e",
      ")">>

VARIATION_LOW ==
    <<" ", "w", "i", "t", "h", " ", "l", "o", "w", " ", "v", "a", "r", "i", "a", "t",
      "i", "o", "n", " ", "(", "m", "o", "n", "o", "t", "o", "n", "e", ")">>

ENERGY_HIGH ==
    <<"h", "i", "g", "h", " ", "(", "c", "o", "n", "f", "i", "d", "e", "n", "t", " ",
      "a", "n", "d", " ", "c", "l", "e", "a", "r", ")">>

ENERGY_MODERATE ==
    <<"m", "o", "d", "e", "r", "a", "t", "e", " ", "(", "b", "a", "l", "a", "n", "c",
      "e", "d", ")">>

ENERGY_LOW ==
    <<"l", "o", "w", " ", "(", "s", "o", "f", "t", " ", "o", "r", " ", "h", "e", "s",
      "i", "t", "a", "n", "t", ")">>

RATE_FAST ==
    <<"f", "a", "s", "t", " ", "(", "e", "n", "e", "r", "g", "e", "t", "i", "c", " ",
      "o", "r", " ", "n", "e", "r", "v", "o", "u", "s", ")">>

RATE_MODERATE ==
    <<"m", "o", "d", "e", "r", "a", "t", "e", " ", "(", "c", "o", "m", "f", "o", "r",
      "t", "a", "b", "l", "e", " ", "p", "a", "c", "e", ")">>

RATE_SLOW ==
    <<"s", "l", "o", "w", " ", "(", "d", "e", "l", "i", "b", "e", "r", "a", "t", "e",
      " ", "o", "r", " ", "u", "n", "c", "e", "r", "t", "a", "i", "n", ")">>

SPECTRAL_BRIGHT ==
    <<"b", "r", "i", "g", "h", "t", " ", "(", "c", "l", "e", "a", "r", " ", "a", "r",
      "t", "i", "c", "u", "l", "a", "t", "i", "o", "n", ")">>

SPECTRAL_BALANCED ==
    <<"b", "a", "l", "a", "n", "c", "e", "d">>

SPECTRAL_DARK ==
    <<"d", "a", "r", "k", " ", "(", "m", "u", "f", "f", "l", "e", "d", " ", "o", "r",
      " ", "l", "o", "w", " ", "r", "e", "s", "o", "n", "a", "n", "c", "e", ")">>

TONE_CONFIDENT ==
    <<"c", "o", "n", "f", "i", "d", "e", "n", "t", " ", "a", "n", "d", " ", "e", "n",
      "g", "a", "g", "i", "n", "g">>

TONE_MODERATE ==
    <<"m", "o", "d", "e", "r", "a", "t", "e", " ", "c", "o", "n", "f", "i", "d", "e",
      "n", "c", "e">>

TONE_LOW ==
    <<"r", "o", "o", "m", " ", "f", "o", "r", " ", "i", "m", "p", "r", "o", "v", "e",
      "m", "e", "n", "t", " ", "i", "n", " ", "v", "o", "c", "a", "l", " ", "p", "r",
      "e", "s", "e", "n", "c", "e">>

KW_CONFIDENT ==
    <<"c", "o", "n", "f", "i", "d", "e", "n", "t">>

KW_MONOTONE ==
    <<"m", "o", "n", "o", "t", "o", "n", "e">>

KW_EXPRESSIVE ==
    <<"e", "x", "p", "r", "e", "s", "s", "i", "v", "e">>

KW_SOFT ==
    <<"s", "o", "f", "t">>

KW_HESITANT ==
    <<"h", "e", "s", "i", "t", "a", "n", "t">>

KW_FAST ==
    <<"f", "a", "s", "t">>

KW_SLOW ==
    <<"s", "l", "o", "w">>

\* a cutoff that takes the boundary value with it
AboveOrEqual(x, n, d) == RatLeq(Rat(n, d), x)

\* x > n/d
Above(x, n, d) == RatLess(Rat(n, d), x)
\* x < n/d
Below(x, n, d) == RatLess(x, Rat(n, d))

\* a score with no upper limit on the pitch
ConfidenceScoreNoUpperPitch(pitch, pitch_std, energy, zcr) ==
    (IF Above(pitch, 120, 1) THEN 1 ELSE 0)
    + (IF Above(energy, 3, 100) THEN 1 ELSE 0)
    + (IF Above(zcr, 5, 100) /\ Below(zcr, 1, 10) THEN 1 ELSE 0)
    + (IF Above(pitch_std, 15, 1) THEN 1 ELSE 0)

\* lines 171-180
ConfidenceScore(pitch, pitch_std, energy, zcr) ==
    (IF Above(pitch, 120, 1) /\ Below(pitch, 200, 1) THEN 1 ELSE 0)
    + (IF Above(energy, 3, 100) THEN 1 ELSE 0)
    + (IF Above(zcr, 5, 100) /\ Below(zcr, 1, 10) THEN 1 ELSE 0)
    + (IF Above(pitch_std, 15, 1) THEN 1 ELSE 0)

\* lines 128-195
InterpretFeatures(pitch, pitch_std, energy, energy_std, zcr, spectral_centroid, tempo) ==
    LET pitch_level ==
            IF Above(pitch, 180, 1) THEN PITCH_HIGH
            ELSE IF Above(pitch, 120, 1) THEN PITCH_MODERATE
            ELSE PITCH_LOW
        pitch_interp ==
            IF Above(pitch_std, 30, 1) THEN pitch_level \o VARIATION_HIGH
            ELSE IF Below(pitch_std, 15, 1) THEN pitch_level \o VARIATION_LOW
            ELSE pitch_level
        energy_interp ==
            IF Above(energy, 5, 100) THEN ENERGY_HIGH
            ELSE IF Above(energy, 2, 100) THEN ENERGY_MODERATE
            ELSE ENERGY_LOW
        rate_interp ==
            IF Above(zcr, 1, 10) THEN RATE_FAST
            ELSE IF Above(zcr, 5, 100) THEN RATE_MODERATE
            ELSE RATE_SLOW
        spectral_interp ==
            IF Above(spectral_centroid, 3000, 1) THEN SPECTRAL_BRIGHT
            ELSE IF Above(spectral_centroid, 2000, 1) THEN SPECTRAL_BALANCED
            ELSE SPECTRAL_DARK
        confidence_score == ConfidenceScore(pitch, pitch_std, energy, zcr)
        overall ==
            IF confidence_score >= 3 THEN TONE_CONFIDENT
            ELSE IF confidence_score >= 2 THEN TONE_MODERATE
            ELSE TONE_LOW
    IN [pitch |-> pitch_interp, energy |-> energy_interp, speaking_rate |-> rate_interp,
        spectral |-> spectral_interp, overall |-> overall]

\* lines 98-126 (and line 52)
AnalyzeAudio(f) ==
    LET interpretation ==
            InterpretFeatures(f.pitch, f.pitch_std, f.energy, f.energy_std, f.zcr,
                              f.spectral_centroid, f.tempo)
    IN [duration |-> RoundTo(f.duration, 100),
        pitch |-> [average |-> RoundTo(f.pitch, 100),
                   variation |-> RoundTo(f.pitch_std, 100),
                   interpretation |-> interpretation.pitch],
        energy |-> [average |-> RoundTo(f.energy, 10000),
                    variation |-> RoundTo(f.energy_std, 10000),
                    interpretation |-> interpretation.energy],
        speaking_rate |-> [value |-> RoundTo(f.zcr, 10000),
                           interpretation |-> interpretation.speaking_rate],
        spectral_centroid |-> [average |-> RoundTo(f.spectral_centroid, 100),
                               interpretation |-> interpretation.spectral],
        tempo |-> RoundTo(f.tempo, 100),
        overall_tone |-> interpretation.overall,
        has_audio |-> TRUE]

\* lines 48-54: librosa.load, then _analyze_audio
VoiceAnalyze(p) ==
    /\ pc[p] = "voice_analyze"
    /\ \E outcome \in {"analyzed", "load_failed", "analysis_failed"} :
         IF outcome = "analyzed"
         THEN /\ voice_results' = [voice_results EXCEPT ![p] = AnalyzeAudio(clip[p].audio)]
              /\ vpc' = [vpc EXCEPT ![p] = "return"]
         ELSE /\ vpc' = [vpc EXCEPT ![p] = "Exception"]
              /\ UNCHANGED voice_results
    /\ pc' = [pc EXCEPT ![p] = "voice_finally"]
    /\ UNCHANGED <<upload, temp_video_path, files, results, pending, response, escaped, wrote, foreign>>
    /\ UNCHANGED facialVars
    /\ UNCHANGED <<wav, wavWritten, clip>>

\* a cleanup written after the return statement instead of in a finally clause
AfterCleanupOnReturnOnly(exists, leaving) == IF leaving = "return" THEN FALSE ELSE exists

\* lines 56-59: whether the transient file exists after the finally clause
AfterCleanup(exists, leaving) == FALSE

\* lines 56-59, then the return or the exception continues in the handler
VoiceFinally(p) ==
    /\ pc[p] = "voice_finally"
    /\ wav' = [wav EXCEPT ![p] = AfterCleanup(@, vpc[p])]
    /\ vpc' = [vpc EXCEPT ![p] = "none"]
    /\ clip' = [clip EXCEPT ![p] = NoVideo]
    /\ IF vpc[p] = "return"
       THEN /\ pc' = [pc EXCEPT ![p] = "compose"]
            /\ UNCHANGED pending
       ELSE /\ pc' = [pc EXCEPT ![p] = "finally_check"]
            /\ pending' = [pending EXCEPT ![p] = vpc[p]]
    /\ UNCHANGED <<upload, temp_video_path, files, results, response, escaped, wrote, foreign>>
    /\ UNCHANGED facialVars
    /\ UNCHANGED <<wavWritten, voice_results>>

\* ------------------------------------------------------- FeedbackGenerator
\* key in d, and d.get(key, default)
Has(d, key) == key \in DOMAIN d
Get(d, key, default) == IF key \in DOMAIN d THEN d[key] ELSE default

\* s in t, for strings
IsSubstring(s, t) ==
    \E i \in 0..(Len(t) - Len(s)) : SubSeq(t, i + 1, i + Len(s)) = s

EmptyDict == <<>>

\* lines 12-41: the labels with an insight
emotion_insights == {"happy", "neutral", "sad", "angry", "surprise", "fear", "disgust"}

\* a facial branch that calls every dominant label a strength
GenerateFacialFeedbackAllStrengths(facial) ==
    [feedback |-> <<>>,
     strengths |-> <<<<"Maintained", Get(facial, "dominant_emotion", "neutral"), "expression">>>>,
     improvements |-> <<>>]

\* lines 98-147
GenerateFacialFeedback(facial) ==
    LET dominant_emotion == Get(facial, "dominant_emotion", "neutral")
        emotion_percentages == Get(facial, "emotion_percentages", EmptyDict)
        known == dominant_emotion \in emotion_insights
        varied == Cardinality(DOMAIN emotion_percentages) > 5
        positive_emotions == Get(emotion_percentages, "happy", Rat(0, 1))
    IN [feedback |->
          (IF known
           THEN <<[category |-> "Dominant Emotion", emotion |-> dominant_emotion,
                   percentage |-> Get(emotion_percentages, dominant_emotion, Rat(0, 1))]>>
           ELSE <<>>)
          \o (IF varied THEN <<[category |-> "Emotional Consistency"]>> ELSE <<>>),
        strengths |->
          (IF known /\ dominant_emotion \in {"happy", "neutral"}
           THEN <<<<"Maintained", dominant_emotion, "expression">>>> ELSE <<>>)
          \o (IF varied THEN <<>> ELSE <<<<"Consistent emotional expression">>>>)
          \o (IF Above(positive_emotions, 40, 1)
              THEN <<<<"Strong positive emotional presence">>>> ELSE <<>>),
        improvements |->
          (IF known /\ dominant_emotion \notin {"happy", "neutral"}
           THEN <<<<"Work on managing", dominant_emotion, "expressions">>>> ELSE <<>>)
          \o (IF varied THEN <<<<"Practice emotional consistency">>>> ELSE <<>>)
          \o (IF ~Above(positive_emotions, 40, 1) /\ Below(positive_emotions, 10, 1)
              THEN <<<<"Consider showing more positive engagement">>>> ELSE <<>>)]

\* lines 149-217
GenerateVoiceFeedback(voice) ==
    LET overall_tone == Get(voice, "overall_tone", <<>>)
        pitch_interp == lower(Get(Get(voice, "pitch", EmptyDict), "interpretation", <<>>))
        energy_interp == lower(Get(Get(voice, "energy", EmptyDict), "interpretation", <<>>))
        rate_interp == lower(Get(Get(voice, "speaking_rate", EmptyDict), "interpretation", <<>>))
        confident == IsSubstring(KW_CONFIDENT, overall_tone)
        monotone == IsSubstring(KW_MONOTONE, pitch_interp)
        expressive == ~monotone /\ IsSubstring(KW_EXPRESSIVE, pitch_interp)
        energetic == IsSubstring(KW_CONFIDENT, energy_interp)
        soft == ~energetic /\ (IsSubstring(KW_SOFT, energy_interp)
                               \/ IsSubstring(KW_HESITANT, energy_interp))
        fast == IsSubstring(KW_FAST, rate_interp)
        slow == ~fast /\ IsSubstring(KW_SLOW, rate_interp)
    IN [feedback |->
          <<[category |-> "Overall Vocal Tone", tone |-> overall_tone]>>
          \o (IF monotone THEN <<[category |-> "Pitch Variation"]>> ELSE <<>>)
          \o (IF fast THEN <<[category |-> "Speaking Rate", pace |-> "fast"]>>
              ELSE IF slow THEN <<[category |-> "Speaking Rate", pace |-> "slower"]>>
              ELSE <<>>),
        strengths |->
          (IF confident THEN <<<<"Confident vocal tone">>>> ELSE <<>>)
          \o (IF expressive THEN <<<<"Good pitch variation">>>> ELSE <<>>)
          \o (IF energetic THEN <<<<"Clear and confident vocal energy">>>> ELSE <<>>)
          \o (IF ~fast /\ ~slow THEN <<<<"Comfortable speaking pace">>>> ELSE <<>>),
        improvements |->
          (IF confident THEN <<>> ELSE <<<<"Build more vocal confidence">>>>)
          \o (IF monotone THEN <<<<"Increase pitch variation">>>> ELSE <<>>)
          \o (IF soft THEN <<<<"Project voice with more energy">>>> ELSE <<>>)
          \o (IF fast THEN <<<<"Moderate speaking pace">>>> ELSE <<>>)]

\* lines 219-244: the clauses that are joined, and the conclusion
GenerateSummary(facial, voice, strengths, improvements) ==
    [parts |->
       (IF ~Has(facial, "error")
        THEN <<<<"You appeared", Get(facial, "dominant_emotion", "neutral")>>>> ELSE <<>>)
       \o (IF ~Has(voice, "error")
           THEN <<<<"your vocal tone was", Get(voice, "overall_tone", <<>>)>>>> ELSE <<>>),
     conclusion |->
       IF Len(strengths) > Len(improvements) THEN "strong communication skills"
       ELSE IF Len(improvements) > Len(strengths) THEN "several areas where you can improve"
       ELSE "balanced nonverbal communication"]

\* recommendations without the two general ones
GenerateRecommendationsSpecificOnly(facial, voice) ==
    IF ~Has(facial, "error") /\ Get(facial, "dominant_emotion", "neutral") \in {"fear", "sad", "angry"}
    THEN <<"Practice Relaxation Techniques">> ELSE <<>>

\* lines 246-298
GenerateRecommendations(facial, voice) ==
    LET dominant_emotion == Get(facial, "dominant_emotion", "neutral")
        positive_ratio == Get(Get(facial, "emotion_percentages", EmptyDict), "happy", Rat(0, 1))
        pitch_interp == lower(Get(Get(voice, "pitch", EmptyDict), "interpretation", <<>>))
        energy_interp == lower(Get(Get(voice, "energy", EmptyDict), "interpretation", <<>>))
    IN (IF ~Has(facial, "error")
        THEN (IF dominant_emotion \in {"fear", "sad", "angry"}
              THEN <<"Practice Relaxation Techniques">> ELSE <<>>)
             \o (IF Below(positive_ratio, 20, 1)
                 THEN <<"Increase Positive Expressions">> ELSE <<>>)
        ELSE <<>>)
       \o (IF ~Has(voice, "error")
           THEN (IF IsSubstring(KW_MONOTONE, pitch_interp)
                 THEN <<"Vary Your Pitch">> ELSE <<>>)
                \o (IF IsSubstring(KW_SOFT, energy_interp)
                    THEN <<"Project Your Voice">> ELSE <<>>)
           ELSE <<>>)
       \o <<"Record and Review", "Practice with Feedback">>

EmptyFeedback ==
    [summary |-> [parts |-> <<>>, conclusion |-> ""], facial_feedback |-> <<>>,
     voice_feedback |-> <<>>, recommendations |-> <<>>, strengths |-> <<>>,
     areas_for_improvement |-> <<>>]

\* lines 43-96
generate_feedback(facial, voice) ==
    LET has_facial_error == Has(facial, "error")
        has_voice_error == Has(voice, "error")
        none == [feedback |-> <<>>, strengths |-> <<>>, improvements |-> <<>>]
        facial_feedback == IF has_facial_error THEN none ELSE GenerateFacialFeedback(facial)
        voice_feedback == IF has_voice_error THEN none ELSE GenerateVoiceFeedback(voice)
        strengths == facial_feedback.strengths \o voice_feedback.strengths
        improvements == facial_feedback.improvements \o voice_feedback.improvements
    IN IF has_facial_error /\ has_voice_error
       THEN [EmptyFeedback EXCEPT !.summary.conclusion = "Unable to analyze video"]
       ELSE [summary |-> GenerateSummary(facial, voice, strengths, improvements),
             facial_feedback |-> facial_feedback.feedback,
             voice_feedback |-> voice_feedback.feedback,
             recommendations |-> GenerateRecommendations(facial, voice),
             strengths |-> strengths,
             areas_for_improvement |-> improvements]

\* ------------------------------------------- request handler, second half
\* a handler that gives up when a modality is absent
ComposeFailingOnError(p) ==
    /\ pc[p] = "compose"
    /\ IF Has(facial_results[p], "error") \/ Has(voice_results[p], "error")
       THEN /\ pending' = [pending EXCEPT ![p] = "Exception"]
            /\ UNCHANGED results
       ELSE /\ pending' = [pending EXCEPT ![p] = "return"]
            /\ results' = [results EXCEPT ![p] =
                             [facial_analysis |-> facial_results[p],
                              voice_analysis |-> voice_results[p],
                              feedback |-> generate_feedback(facial_results[p], voice_results[p]),
                              success |-> TRUE]]
    /\ pc' = [pc EXCEPT ![p] = "finally_check"]
    /\ UNCHANGED <<upload, temp_video_path, files, response, escaped, wrote, foreign>>
    /\ UNCHANGED facialVars
    /\ UNCHANGED voiceVars

\* lines 93-106: compose, combine, normalise; the return then runs the finally
Compose(p) ==
    /\ pc[p] = "compose"
    /\ results' = [results EXCEPT ![p] =
                     [facial_analysis |-> facial_results[p],
                      voice_analysis |-> voice_results[p],
                      feedback |-> generate_feedback(facial_results[p], voice_results[p]),
                      success |-> TRUE]]
    /\ pending' = [pending EXCEPT ![p] = "return"]
    /\ pc' = [pc EXCEPT ![p] = "finally_check"]
    /\ UNCHANGED <<upload, temp_video_path, files, response, escaped, wrote, foreign>>
    /\ UNCHANGED facialVars
    /\ UNCHANGED voiceVars

\* the inner try block is left: a pending return answers 200, a pending
\* exception goes on to the outer except clause
LeaveTry(p, propagating) ==
    IF propagating = "return"
    THEN /\ response' = [response EXCEPT ![p] = [status |-> 200, body |-> results[p]]]
         /\ pc' = [pc EXCEPT ![p] = "done"]
    ELSE /\ pc' = [pc EXCEPT ![p] = "except"]
         /\ UNCHANGED response

\* line 110: os.path.exists(temp_video_path)
FinallyCheck(p) ==
    /\ pc[p] = "finally_check"
    /\ IF files[temp_video_path[p]].owner # None
       THEN /\ pc' = [pc EXCEPT ![p] = "finally_remove"]
            /\ UNCHANGED response
       ELSE LeaveTry(p, pending[p])
    /\ UNCHANGED <<upload, temp_video_path, files, results, pending, escaped, wrote, foreign>>
    /\ UNCHANGED facialVars
    /\ UNCHANGED voiceVars

\* line 111: os.remove(temp_video_path); the file may be gone by now, and the
\* FileNotFoundError then replaces whatever was pending
FinallyRemove(p) ==
    /\ pc[p] = "finally_remove"
    /\ LET path == temp_video_path[p] IN
       IF files[path].owner # None
       THEN /\ files' = [files EXCEPT ![path] = NoFile]
            /\ foreign' = [foreign EXCEPT ![p] = @ \cup Foreign(p, path, "delete")]
            /\ UNCHANGED pending
            /\ LeaveTry(p, pending[p])
       ELSE /\ pending' = [pending EXCEPT ![p] = "FileNotFoundError"]
            /\ LeaveTry(p, "FileNotFoundError")
            /\ UNCHANGED <<files, foreign>>
    /\ UNCHANGED <<upload, temp_video_path, results, escaped, wrote>>
    /\ UNCHANGED facialVars
    /\ UNCHANGED voiceVars

\* an except clause for I/O errors only
CatchesOnlyOSError(class) == class \in {"OSError", "FileNotFoundError"}

\* line 114: the classes `except Exception` catches; every exception of the
\* pipeline derives from Exception
Catches(class) == TRUE

\* lines 114-119
Except(p) ==
    /\ pc[p] = "except"
    /\ IF Catches(pending[p])
       THEN /\ response' = [response EXCEPT ![p] = Error500]
            /\ UNCHANGED escaped
       ELSE /\ escaped' = [escaped EXCEPT ![p] = TRUE]
            /\ UNCHANGED response
    /\ pc' = [pc EXCEPT ![p] = "done"]
    /\ UNCHANGED <<upload, temp_video_path, files, results, pending, wrote, foreign>>
    /\ UNCHANGED facialVars
    /\ UNCHANGED voiceVars

\* the response has been sent; the request and its objects are gone
Close(p) ==
    /\ pc[p] = "done"
    /\ pc' = [pc EXCEPT ![p] = "idle"]
    /\ upload' = [upload EXCEPT ![p] = NoUpload]
    /\ temp_video_path' = [temp_video_path EXCEPT ![p] = NoPath]
    /\ results' = [results EXCEPT ![p] = NoResult]
    /\ pending' = [pending EXCEPT ![p] = "none"]
    /\ response' = [response EXCEPT ![p] = NoResponse]
    /\ escaped' = [escaped EXCEPT ![p] = FALSE]
    /\ wrote' = [wrote EXCEPT ![p] = FALSE]
    /\ foreign' = [foreign EXCEPT ![p] = {}]
    /\ cap' = [cap EXCEPT ![p] = "none"]
    /\ facial_results' = [facial_results EXCEPT ![p] = NoResult]
    /\ voice_results' = [voice_results EXCEPT ![p] = NoResult]
    /\ wavWritten' = [wavWritten EXCEPT ![p] = FALSE]
    /\ files' = [f \in ScratchPaths |->
                   IF files[f].owner = p THEN [files[f] EXCEPT !.owner = "gone"] ELSE files[f]]
    /\ UNCHANGED <<video, total_frames, fps, frame_idx, emotions_detected, invoked,
                   clip, vpc, wav>>

\* -------------------------------------------------------- specifications
Step(p) ==
    \/ Validate(p)
    \/ Save(p)
    \/ FacialOpen(p)
    \/ FrameStep(p)
    \/ FacialReturn(p)
    \/ VoiceOpen(p)
    \/ VoiceWrite(p)
    \/ VoiceAnalyze(p)
    \/ VoiceFinally(p)
    \/ Compose(p)
    \/ FinallyCheck(p)
    \/ FinallyRemove(p)
    \/ Except(p)
    \/ Close(p)

\* requests are served one after the other
Next == \E p \in Requests : ReceiveOne(p) \/ Step(p)

Spec == Init /\ [][Next]_vars

\* two requests in flight: the server runs one thread per request
ReceiveAny(p) == \E u \in Uploads(ConcFilenames, ConcVideos) : Receive(p, u)

NextConc == \E p \in Requests : ReceiveAny(p) \/ Step(p)

SpecConc == Init /\ [][NextConc]_vars

\* the summary statistics on, next to and between the thresholds of the rule
\* engine; spectral centroid, energy variation and tempo vary around one vector
RuleInputs ==
    {Features(pitch, pitch_std, energy, zcr, Rat(2500, 1)) :
        pitch \in {Rat(100, 1), Rat(120, 1), Rat(150, 1), Rat(180, 1),
                   Rat(1800001, 10000), Rat(200, 1), Rat(220, 1)},
        pitch_std \in {Rat(10, 1), Rat(15, 1), Rat(20, 1), Rat(30, 1), Rat(40, 1)},
        energy \in {Rat(1, 100), Rat(2, 100), Rat(3, 100), Rat(4, 100), Rat(5, 100),
                    Rat(8, 100)},
        zcr \in {Rat(3, 100), Rat(5, 100), Rat(7, 100), Rat(10, 100), Rat(15, 100)}}
    \cup
    {[Features(Rat(150, 1), Rat(20, 1), Rat(4, 100), Rat(7, 100), centroid)
        EXCEPT !.energy_std = energy_std, !.tempo = tempo] :
        centroid \in {Rat(1500, 1), Rat(2000, 1), Rat(2500, 1), Rat(3000, 1), Rat(3500, 1)},
        energy_std \in {Rat(1, 100), Rat(3, 100)},
        tempo \in {Rat(90, 1), Rat(120, 1)}}

\* the videos of the rule-engine runs: no frame, one audio track
RuleVideos ==
    [valid : {TRUE}, nframes : {0}, header : {0}, fps : {30}, audio : RuleInputs]

\* one request at a time, every audio track of RuleInputs
ReceiveRules(p) ==
    /\ \A q \in Requests : pc[q] = "idle"
    /\ \E u \in Uploads({C_MP4}, RuleVideos) : Receive(p, u)

NextRules == \E p \in Requests : ReceiveRules(p) \/ Step(p)

SpecRules == Init /\ [][NextRules]_vars

\* ----------------------------------------------------------------- claims
Answered(p) == pc[p] = "done"

\* the request is past FacialAnalyzer.analyze_video
LeftFacial(p) ==
    pc[p] \in {"voice_open", "voice_write", "voice_analyze", "voice_finally", "compose",
               "finally_check", "finally_remove", "except", "done"}

\* C1: once a request that reached file.save has its response, its scratch
\* file is not on disk, whichever way the handler was left.
C1_ScratchFileGone ==
    \A p \in Requests :
        Answered(p) /\ temp_video_path[p] # NoPath
            => files[temp_video_path[p]].owner = None

\* C2: two requests in flight never share a scratch path, and neither writes,
\* reads or deletes a file the other stored.
C2_NoSharedScratchFile ==
    \A p \in Requests :
        /\ foreign[p] = {}
        /\ \A q \in Requests \ {p} :
             InFlight(p) /\ InFlight(q) /\ temp_video_path[p] # NoPath
                 => temp_video_path[p] # temp_video_path[q]

\* C3: no exception leaves analyze_video, and a request in which one was
\* raised (upload, save, sampler, extractor, reducer, scratch-file removal)
\* is answered 500 {error, success: false}.
C3_ExceptionsBecome500 ==
    \A p \in Requests :
        /\ ~escaped[p]
        /\ Answered(p) /\ pending[p] \notin {"none", "return"}
             => response[p] = [status |-> 500,
                               body |-> [error |-> "Analysis failed", success |-> FALSE]]
        /\ Answered(p) => response[p].status \in {200, 400, 500}

C3_Witness ==
    \E p \in Requests :
        /\ Answered(p)
        /\ pending[p] = "FileNotFoundError"
        /\ response[p].status = 500
        /\ \E q \in Requests : pending[q] = "cv2.error" /\ Answered(q) /\ response[q].status = 500

\* the uploads of C4
Rejected(u) ==
    \/ u.body = "novideo"
    \/ u.body = "video" /\ u.filename \in {<<>>, C_AVI, C_MP4_AVI, MP4_NODOT}

\* C4: no video field, an empty file name and an extension other than mp4 are
\* answered 400 with their messages, and such a request never stores a scratch
\* file nor starts an analysis.
C4_RejectedBeforeAnalysis ==
    \A p \in Requests :
        Rejected(upload[p]) =>
            /\ ~wrote[p] /\ temp_video_path[p] = NoPath
            /\ cap[p] = "none" /\ facial_results[p] = NoResult
            /\ voice_results[p] = NoResult /\ ~wavWritten[p]
            /\ pc[p] \in {"validate", "done"}
            /\ Answered(p) =>
                 /\ response[p].status = 400
                 /\ upload[p].body = "novideo"
                      => response[p].body = [error |-> "No video file provided"]
                 /\ upload[p].body = "video" /\ upload[p].filename = <<>>
                      => response[p].body = [error |-> "No file selected"]
                 /\ upload[p].body = "video" /\ upload[p].filename # <<>>
                      => response[p].body = [error |-> "Only MP4 files are allowed"]

C4_Witness ==
    \E p \in Requests :
        /\ Answered(p)
        /\ upload[p].filename = C_AVI
        /\ response[p] = [status |-> 400, body |-> [error |-> "Only MP4 files are allowed"]]

\* C5: when both analyzers have returned and the facial or the voice summary
\* is an error variant, the request is answered 200 with success true, the
\* composer's report, and the error variants as the sub-results.
C5_ModalityAbsenceIsNotFailure ==
    \A p \in Requests :
        LET facial == facial_results[p]
            voice == voice_results[p]
        IN Answered(p) /\ facial # NoResult /\ voice # NoResult
           /\ (Has(facial, "error") \/ Has(voice, "error"))
             => /\ response[p].status = 200
                /\ response[p].body.success
                /\ response[p].body.facial_analysis = facial
                /\ response[p].body.voice_analysis = voice
                /\ Has(facial, "error") /\ Has(voice, "error")
                     => response[p].body.feedback.recommendations = <<>>
                /\ ~(Has(facial, "error") /\ Has(voice, "error"))
                     => response[p].body.feedback.recommendations # <<>>

C5_Witness ==
    \E p \in Requests :
        /\ Answered(p)
        /\ response[p].status = 200
        /\ Has(response[p].body.facial_analysis, "error")
        /\ response[p].body.voice_analysis = VoiceError

\* C6: the transient WAV file exists only between write_audiofile and the
\* finally clause of VoiceAnalyzer.analyze_video, so it is gone however the
\* function is left, and the no-audio return never creates it.
C6_TransientWavRemoved ==
    \A p \in Requests :
        /\ wav[p] => pc[p] \in {"voice_analyze", "voice_finally"}
        /\ voice_results[p] = VoiceError => ~wavWritten[p]

C6_Witness ==
    \E p \in Requests :
        /\ pc[p] = "finally_check"
        /\ pending[p] = "OSError"
        /\ wavWritten[p]
        /\ ~wav[p]

FramesOf(detected) == {detected[i].frame : i \in 1..Len(detected)}

Increasing(detected) ==
    \A i, j \in 1..Len(detected) : i < j => detected[i].frame < detected[j].frame

\* C7: the classifier is invoked on exactly the decoded frames whose index is
\* a multiple of the stride; a failed classification adds nothing and the loop
\* goes on to the end of the video; the collected frame indices increase
\* strictly and are multiples of the stride.
C7_SamplerStride ==
    \A p \in Requests :
        /\ pc[p] \in {"frames", "aggregate"} =>
             /\ invoked[p] = {i \in 0..(frame_idx[p] - 1) : i % FrameSkip = 0}
             /\ FramesOf(emotions_detected[p]) \subseteq invoked[p]
             /\ Increasing(emotions_detected[p])
        /\ pc[p] = "aggregate" => frame_idx[p] = video[p].nframes
        /\ facial_results[p] # NoResult /\ ~Has(facial_results[p], "error") =>
             /\ Increasing(facial_results[p].emotions_detected)
             /\ \A f \in FramesOf(facial_results[p].emotions_detected) : f % FrameSkip = 0

C7_Witness ==
    \E p \in Requests :
        /\ pc[p] = "aggregate"
        /\ invoked[p] = {0, FrameSkip, 2 * FrameSkip}
        /\ FramesOf(emotions_detected[p]) = {0, 2 * FrameSkip}

\* C8: once FacialAnalyzer.analyze_video has been left, by return or by
\* exception, the capture it created is not open.
C8_CaptureReleased ==
    \A p \in Requests : LeftFacial(p) => cap[p] # "open"

\* C9: with fps = 0 no frame is ever collected; a run that ends with no
\* classified frame returns {error, duration, frames_analyzed = 0}, a non-error
\* summary has at least one frame, and the aggregation never raises.
C9_NoFacesIsErrorVariant ==
    \A p \in Requests :
        /\ pc[p] \in {"frames", "aggregate"} /\ fps[p] = 0 => emotions_detected[p] = <<>>
        /\ pending[p] # "IndexError"
        /\ facial_results[p] # NoResult =>
             IF Has(facial_results[p], "error")
             THEN /\ DOMAIN facial_results[p] = {"error", "duration", "frames_analyzed"}
                  /\ facial_results[p].frames_analyzed = 0
                  /\ facial_results[p].duration =
                       (IF upload[p].video.fps > 0
                        THEN [num |-> upload[p].video.header, den |-> upload[p].video.fps]
                        ELSE [num |-> 0, den |-> 1])
             ELSE facial_results[p].frames_analyzed > 0
        /\ LeftFacial(p) /\ pending[p] \in {"none", "return"} /\ facial_results[p] # NoResult
           /\ upload[p].video.fps = 0
             => Has(facial_results[p], "error")

C9_Witness ==
    \E p \in Requests :
        /\ pc[p] = "voice_open"
        /\ upload[p].video.fps = 0
        /\ upload[p].video.nframes > FrameSkip
        /\ facial_results[p] = [error |-> "No faces detected in video",
                                duration |-> Rat(0, 1), frames_analyzed |-> 0]

RECURSIVE SumNum(_, _)
SumNum(f, S) ==
    IF S = {} THEN 0
    ELSE LET x == CHOOSE y \in S : TRUE IN f[x].num + SumNum(f, S \ {x})

\* C10: in a non-error summary the percentages are count/total*100 over the
\* classified frames, they sum to 100, and the labels that have one are exactly
\* the dominant labels observed.
C10_PercentagesSumTo100 ==
    \A p \in Requests :
        LET summary == facial_results[p] IN
        summary # NoResult /\ ~Has(summary, "error") =>
            LET pct == summary.emotion_percentages
                detected == summary.emotions_detected
            IN /\ DOMAIN pct = {detected[i].emotion : i \in 1..Len(detected)}
               /\ \A l \in DOMAIN pct :
                    /\ pct[l].den = summary.frames_analyzed
                    /\ pct[l].num =
                         100 * Cardinality({i \in 1..Len(detected) : detected[i].emotion = l})
               /\ SumNum(pct, DOMAIN pct) = 100 * summary.frames_analyzed
               /\ summary.frames_analyzed = Len(detected)

C10_Witness ==
    \E p \in Requests :
        /\ facial_results[p] # NoResult
        /\ ~Has(facial_results[p], "error")
        /\ facial_results[p].frames_analyzed = 3
        /\ DOMAIN facial_results[p].emotion_percentages = {"happy", "sad"}
        /\ facial_results[p].emotion_percentages["sad"] = Rat(200, 3)

RatEq(a, b) == a.num * b.den = b.num * a.den

\* the duration FacialAnalyzer.analyze_video computes for the upload of p
ExactDuration(p) ==
    IF upload[p].video.fps > 0
    THEN [num |-> upload[p].video.header, den |-> upload[p].video.fps]
    ELSE [num |-> 0, den |-> 1]

HasSummary(p) == facial_results[p] # NoResult /\ ~Has(facial_results[p], "error")

\* C11: the timeline of a summary has exactly 10 segments numbered 1..10 in
\* order; segment i (from 0) is selected over [i*duration/10, (i+1)*duration/10)
\* and reports these two bounds rounded to two decimals; each end is the next
\* start, the first start is 0 and the last end is the duration.
C11_TimelineTenContiguousSegments ==
    \A p \in Requests :
        HasSummary(p) =>
            LET timeline == facial_results[p].timeline
                duration == ExactDuration(p)
            IN /\ Len(timeline) = 10
               /\ \A k \in 1..10 :
                    /\ timeline[k].segment = k
                    /\ RatEq(SegmentStart(k - 1, duration),
                             [num |-> (k - 1) * duration.num, den |-> 10 * duration.den])
                    /\ timeline[k].start_time =
                         Round2([num |-> (k - 1) * duration.num, den |-> 10 * duration.den])
                    /\ RatLeq(SegmentStart(k - 1, duration), SegmentEnd(k - 1, duration))
                    /\ RatLeq(timeline[k].start_time, timeline[k].end_time)
                    /\ k < 10 =>
                         /\ RatEq(SegmentEnd(k - 1, duration), SegmentStart(k, duration))
                         /\ timeline[k].end_time = timeline[k + 1].start_time
               /\ timeline[1].start_time = [num |-> 0, den |-> 100]
               /\ RatEq(SegmentEnd(9, duration), duration)
               /\ timeline[10].end_time = facial_results[p].duration

C11_Witness ==
    \E p \in Requests :
        /\ HasSummary(p)
        /\ upload[p].video.header = 10 /\ upload[p].video.fps = 30
        /\ Len(facial_results[p].timeline) = 10
        /\ facial_results[p].timeline[2].start_time = [num |-> 3, den |-> 100]
        /\ facial_results[p].timeline[10].end_time = [num |-> 33, den |-> 100]

RECURSIVE SumOver(_, _)
SumOver(f, S) ==
    IF S = {} THEN 0
    ELSE LET x == CHOOSE y \in S : TRUE IN f[x] + SumOver(f, S \ {x})

\* the segments (from 0) whose range holds the timestamp
SegmentsHolding(timestamp, duration) ==
    {i \in 0..9 : /\ RatLeq(SegmentStart(i, duration), timestamp)
                  /\ RatLess(timestamp, SegmentEnd(i, duration))}

\* C17: in a summary every collected frame has timestamp frame/fps, lies in
\* exactly one of the 10 segments of [0, total_frames/fps), the frames of the
\* segments add up to frames_analyzed, and a segment holding a frame carries
\* the most common label of its frames instead of the default.
C17_FramesInExactlyOneSegment ==
    \A p \in Requests :
        HasSummary(p) =>
            LET detected == facial_results[p].emotions_detected
                duration == ExactDuration(p)
                perSegment == [i \in 0..9 |-> Len(SegmentFrames(detected, i, duration))]
            IN /\ \A j \in 1..Len(detected) :
                    /\ detected[j].timestamp =
                         [num |-> detected[j].frame, den |-> upload[p].video.fps]
                    /\ Cardinality(SegmentsHolding(detected[j].timestamp, duration)) = 1
               /\ SumOver(perSegment, 0..9) = facial_results[p].frames_analyzed
               /\ \A i \in 0..9 :
                    perSegment[i] > 0 =>
                        facial_results[p].timeline[i + 1].emotion =
                            MostCommon(EmotionsOf(SegmentFrames(detected, i, duration)))

\* the same, for videos whose header counts every frame that decodes
C17_HoldsForExactHeader ==
    \A p \in Requests :
        HasSummary(p) /\ upload[p].video.header = upload[p].video.nframes =>
            \A j \in 1..Len(facial_results[p].emotions_detected) :
                Cardinality(SegmentsHolding(facial_results[p].emotions_detected[j].timestamp,
                                            ExactDuration(p))) = 1

StartsWith(s, prefix) == Len(s) >= Len(prefix) /\ SubSeq(s, 1, Len(prefix)) = prefix

\* the request has an acoustic summary
HasAcoustics(p) == voice_results[p] # NoResult /\ ~Has(voice_results[p], "error")

\* exactly one of the three
OneOf(a, b, c) == (a /\ ~b /\ ~c) \/ (~a /\ b /\ ~c) \/ (~a /\ ~b /\ c)

\* C12: every threshold of the rule engine is a strict cutoff, first match
\* wins: pitch > 180 is high, 120 < pitch <= 180 moderate, else low; energy
\* > 0.05 high, 0.02 < energy <= 0.05 moderate, else low; zcr > 0.1 fast,
\* 0.05 < zcr <= 0.1 moderate, else slow; centroid > 3000 bright, 2000 <
\* centroid <= 3000 balanced, else dark; each feature has exactly one label.
C12_StrictCutoffs ==
    \A p \in Requests :
        HasAcoustics(p) =>
            LET f == upload[p].video.audio
                v == voice_results[p]
                pitch == v.pitch.interpretation
                energy == v.energy.interpretation
                rate == v.speaking_rate.interpretation
                spectral == v.spectral_centroid.interpretation
            IN /\ StartsWith(pitch, PITCH_HIGH) <=> f.pitch.num > 180 * f.pitch.den
               /\ StartsWith(pitch, PITCH_MODERATE) <=>
                    (f.pitch.num > 120 * f.pitch.den /\ f.pitch.num <= 180 * f.pitch.den)
               /\ StartsWith(pitch, PITCH_LOW) <=> f.pitch.num <= 120 * f.pitch.den
               /\ OneOf(StartsWith(pitch, PITCH_HIGH), StartsWith(pitch, PITCH_MODERATE),
                        StartsWith(pitch, PITCH_LOW))
               /\ energy = ENERGY_HIGH <=> 100 * f.energy.num > 5 * f.energy.den
               /\ energy = ENERGY_MODERATE <=>
                    (100 * f.energy.num > 2 * f.energy.den
                     /\ 100 * f.energy.num <= 5 * f.energy.den)
               /\ energy = ENERGY_LOW <=> 100 * f.energy.num <= 2 * f.energy.den
               /\ OneOf(energy = ENERGY_HIGH, energy = ENERGY_MODERATE, energy = ENERGY_LOW)
               /\ rate = RATE_FAST <=> 10 * f.zcr.num > f.zcr.den
               /\ rate = RATE_MODERATE <=>
                    (100 * f.zcr.num > 5 * f.zcr.den /\ 10 * f.zcr.num <= f.zcr.den)
               /\ rate = RATE_SLOW <=> 100 * f.zcr.num <= 5 * f.zcr.den
               /\ OneOf(rate = RATE_FAST, rate = RATE_MODERATE, rate = RATE_SLOW)
               /\ spectral = SPECTRAL_BRIGHT <=>
                    f.spectral_centroid.num > 3000 * f.spectral_centroid.den
               /\ spectral = SPECTRAL_BALANCED <=>
                    (f.spectral_centroid.num > 2000 * f.spectral_centroid.den
                     /\ f.spectral_centroid.num <= 3000 * f.spectral_centroid.den)
               /\ spectral = SPECTRAL_DARK <=>
                    f.spectral_centroid.num <= 2000 * f.spectral_centroid.den
               /\ OneOf(spectral = SPECTRAL_BRIGHT, spectral = SPECTRAL_BALANCED,
                        spectral = SPECTRAL_DARK)
               /\ f.pitch = [num |-> 180, den |-> 1] => StartsWith(pitch, PITCH_MODERATE)
               /\ f.pitch = [num |-> 1800001, den |-> 10000] => StartsWith(pitch, PITCH_HIGH)
               /\ f.energy = [num |-> 5, den |-> 100] => energy = ENERGY_MODERATE
               /\ f.zcr = [num |-> 10, den |-> 100] => rate = RATE_MODERATE
               /\ f.spectral_centroid = [num |-> 3000, den |-> 1] =>
                    spectral = SPECTRAL_BALANCED

C12_Witness ==
    \E p \in Requests :
        /\ HasAcoustics(p)
        /\ upload[p].video.audio.pitch = [num |-> 180, den |-> 1]
        /\ upload[p].video.audio.energy = [num |-> 5, den |-> 100]
        /\ upload[p].video.audio.zcr = [num |-> 10, den |-> 100]
        /\ StartsWith(voice_results[p].pitch.interpretation, PITCH_MODERATE)
        /\ voice_results[p].energy.interpretation = ENERGY_MODERATE
        /\ voice_results[p].speaking_rate.interpretation = RATE_MODERATE

\* the four conditions of the composite score, counted
ConditionsHeld(f) ==
    (IF f.pitch.num > 120 * f.pitch.den /\ f.pitch.num < 200 * f.pitch.den THEN 1 ELSE 0)
    + (IF 100 * f.energy.num > 3 * f.energy.den THEN 1 ELSE 0)
    + (IF 100 * f.zcr.num > 5 * f.zcr.den /\ 10 * f.zcr.num < f.zcr.den THEN 1 ELSE 0)
    + (IF f.pitch_std.num > 15 * f.pitch_std.den THEN 1 ELSE 0)

\* C13: the confidence score is the number of the conditions 120 < pitch <
\* 200, energy > 0.03, 0.05 < zcr < 0.1, pitch_std > 15 that hold; the overall
\* tone is confident for 3 and 4, moderate for 2, room for improvement for 0
\* and 1, whatever energy variation, spectral centroid and tempo are; pitch
\* 150, energy 0.04, zcr 0.07, pitch_std 20 scores 4.
C13_ConfidenceScore ==
    \A p \in Requests :
        HasAcoustics(p) =>
            LET f == upload[p].video.audio
                overall == voice_results[p].overall_tone
                score == ConfidenceScore(f.pitch, f.pitch_std, f.energy, f.zcr)
            IN /\ score = ConditionsHeld(f)
               /\ score \in 0..4
               /\ overall = TONE_CONFIDENT <=> score >= 3
               /\ overall = TONE_MODERATE <=> score = 2
               /\ overall = TONE_LOW <=> score <= 1
               /\ \A g \in RuleInputs :
                    (g.pitch = f.pitch /\ g.pitch_std = f.pitch_std
                     /\ g.energy = f.energy /\ g.zcr = f.zcr)
                        => AnalyzeAudio(g).overall_tone = overall
               /\ (f.pitch = [num |-> 150, den |-> 1] /\ f.energy = [num |-> 4, den |-> 100]
                   /\ f.zcr = [num |-> 7, den |-> 100] /\ f.pitch_std = [num |-> 20, den |-> 1])
                     => score = 4 /\ overall = TONE_CONFIDENT

C13_Witness ==
    \E p \in Requests :
        /\ HasAcoustics(p)
        /\ upload[p].video.audio.pitch = [num |-> 150, den |-> 1]
        /\ upload[p].video.audio.energy = [num |-> 4, den |-> 100]
        /\ upload[p].video.audio.zcr = [num |-> 7, den |-> 100]
        /\ upload[p].video.audio.pitch_std = [num |-> 20, den |-> 1]
        /\ upload[p].video.audio.spectral_centroid = [num |-> 3500, den |-> 1]
        /\ upload[p].video.audio.tempo = [num |-> 90, den |-> 1]
        /\ voice_results[p].overall_tone = TONE_CONFIDENT

\* the handler composed a report for p
Composed(p) == Has(results[p], "feedback")

Member(x, seq) == \E i \in 1..Len(seq) : seq[i] = x

\* C14: when both analyzers returned an error variant the report is the
\* apology with no feedback, strengths, improvements or recommendations; in
\* every other report the recommendations end with "Record and Review" and
\* "Practice with Feedback".
C14_ApologyOrGenericRecommendations ==
    \A p \in Requests :
        Composed(p) =>
            LET report == results[p].feedback
                recommendations == report.recommendations
                n == Len(recommendations)
            IN IF /\ Has(results[p].facial_analysis, "error")
                  /\ Has(results[p].voice_analysis, "error")
               THEN /\ report.summary = [parts |-> <<>>, conclusion |-> "Unable to analyze video"]
                    /\ report.facial_feedback = <<>>
                    /\ report.voice_feedback = <<>>
                    /\ report.strengths = <<>>
                    /\ report.areas_for_improvement = <<>>
                    /\ recommendations = <<>>
               ELSE /\ n >= 2
                    /\ recommendations[n - 1] = "Record and Review"
                    /\ recommendations[n] = "Practice with Feedback"
                    /\ report.summary.conclusion # "Unable to analyze video"

C14_Witness ==
    \E p \in Requests :
        /\ Composed(p)
        /\ Has(results[p].facial_analysis, "error")
        /\ Has(results[p].voice_analysis, "error")
        /\ upload[p].video.nframes > 0
        /\ results[p].feedback.recommendations = <<>>
        /\ results[p].feedback.summary.conclusion = "Unable to analyze video"

\* C15: in a report with an acoustic summary, a pitch interpretation that
\* contains "expressive" gives the strength "Good pitch variation", and one
\* that contains "monotone" gives the item "Pitch Variation" and the
\* improvement "Increase pitch variation".
C15_PitchKeywords ==
    \A p \in Requests :
        Composed(p) /\ ~Has(results[p].voice_analysis, "error") =>
            LET interp == lower(results[p].voice_analysis.pitch.interpretation)
                report == results[p].feedback
            IN /\ IsSubstring(KW_EXPRESSIVE, interp) =>
                    Member(<<"Good pitch variation">>, report.strengths)
               /\ IsSubstring(KW_MONOTONE, interp) =>
                    /\ Member([category |-> "Pitch Variation"], report.voice_feedback)
                    /\ Member(<<"Increase pitch variation">>, report.areas_for_improvement)

\* the facial branch for a summary with one dominant label
OnlyLabel(label) ==
    [dominant_emotion |-> label, emotion_percentages |-> [l \in {label} |-> Rat(100, 1)]]

\* the label is recorded once, on the side the claim names
RecordedOnOneSide(label, strengths, improvements) ==
    LET kept == <<"Maintained", label, "expression">>
        managed == <<"Work on managing", label, "expressions">>
    IN IF label \in {"happy", "neutral"}
       THEN Member(kept, strengths) /\ ~Member(managed, improvements)
       ELSE Member(managed, improvements) /\ ~Member(kept, strengths)

\* C16: in a report with a facial summary the dominant label is a strength
\* "Maintained <label> expression" if it is happy or neutral and otherwise an
\* improvement "Work on managing <label> expressions", never both and never
\* neither, for every label the classifier has.
C16_DominantLabelStrengthOrImprovement ==
    /\ \A label \in emotion_insights :
         RecordedOnOneSide(label, GenerateFacialFeedback(OnlyLabel(label)).strengths,
                           GenerateFacialFeedback(OnlyLabel(label)).improvements)
    /\ \A p \in Requests :
         Composed(p) /\ ~Has(results[p].facial_analysis, "error") =>
             RecordedOnOneSide(results[p].facial_analysis.dominant_emotion,
                               results[p].feedback.strengths,
                               results[p].feedback.areas_for_improvement)

C16_Witness ==
    \E p \in Requests :
        /\ Composed(p)
        /\ ~Has(results[p].facial_analysis, "error")
        /\ results[p].facial_analysis.dominant_emotion = "sad"
        /\ Member(<<"Work on managing", "sad", "expressions">>,
                  results[p].feedback.areas_for_improvement)
        /\ ~Member(<<"Maintained", "sad", "expression">>, results[p].feedback.strengths)

====
